---- MODULE Spec2Model ----
(***************************************************************************)
(* HyprContext: the capture/analyze/persist loop (main.py), the focus      *)
(* tracker (focus.py), the response parser (analyzer.py) and the tools     *)
(* around them (window.py, notifier.py, database.py).                      *)
(*                                                                         *)
(* The specifications of this module:                                      *)
(*   Spec       the perpetual loop of main.main, one action per step       *)
(*   SpecRun    that loop under signals and configured timing              *)
(*   SpecFocus  a FocusTracker under calls, restarts and date changes      *)
(*   SpecStats  FocusTracker.get_stats over states and allowances          *)
(*   SpecParse  OllamaAnalyzer._parse_response applied to bounded inputs   *)
(*   SpecWindow the window queries of window.py over window snapshots      *)
(*   SpecNotify a FocusTracker whose warnings handle_focus_warning handles *)
(*   SpecPrompt the user prompts analyze_image builds in two cycles        *)
(*   SpecDb     queries and migration of the collection of database.py     *)
(***************************************************************************)
EXTENDS Integers, Sequences, FiniteSets, TLC

\* ---------------------------------------------------------------- bounds
MaxCycles == 3          \* iterations of the loop that are explored
MaxRamSize == 2         \* RAM_SIZE is drawn from 0..MaxRamSize
MaxThreshold == 2       \* DISTRACTION_THRESHOLD is drawn from 1..MaxThreshold
MaxOps == 3             \* calls made on a FocusTracker
MaxDay == 2             \* the date runs over 1..MaxDay
MaxFocusThreshold == 2  \* distraction_threshold is drawn from 1..MaxFocusThreshold
MaxLen == 4             \* tokens of a reply explored exhaustively
MaxUsed == 4             \* seconds of distraction a day starts the statistics with
MaxWindows == 2          \* windows get_all_windows lists
MaxKeywords == 2         \* items of the banned-keyword list
MaxMemory == 4          \* entries of short_term_memory when a prompt is built
MaxRecords == 2         \* records the collection starts with
MaxCalls == 2           \* calls made on the collection
MaxTags == 5            \* tags in a tag group of a reply of the prompted form

\* The daily allowances a FocusTracker is constructed with, in seconds.
DailyLimits == {5, 100}

\* The summaries the inference service may return: each iteration's reply
\* has a text of its own, named by the iteration.
Summaries == 1..MaxCycles

Max(a, b) == IF a >= b THEN a ELSE b
Min(a, b) == IF a <= b THEN a ELSE b

VARIABLES
  \* --- main.py
  pc,                  \* position of main.main
  ram_size,            \* config.RAM_SIZE
  threshold,           \* config.DISTRACTION_THRESHOLD
  capture_interval,    \* config.CAPTURE_INTERVAL, in seconds
  min_cooldown,        \* config.MIN_COOLDOWN, in seconds
  short_term_memory,   \* main.short_term_memory, oldest first
  distraction_count,   \* main.distraction_count
  history_file,        \* lines of history.jsonl: the iteration and its timestamp
  vectordb,            \* documents of the collection, as the iterations that added them
  analysis,            \* the local `analysis` of the iteration in flight
  iter,                \* number of iterations started (the clock)
  cycle,               \* what the iteration in flight has done so far
  appended,            \* every summary ever appended to short_term_memory
  \* --- focus.py
  today,               \* date.today(), as a day number
  daily_limit,         \* FocusTracker.daily_limit
  focus_threshold,     \* FocusTracker.threshold
  data,                \* FocusTracker.data
  data_file,           \* the file at FocusTracker.data_path
  ret,                 \* the last call: the date it was made on, data
                       \* before it, its arguments and what it returned
  run,                 \* add_distraction calls in a row since a fresh state, or -1
  ops,                 \* number of calls made
  \* --- analyzer.py
  raw_text,            \* the content of the inference service's reply
  parsed,              \* what _parse_response returned for it, if called
  \* --- window.py
  banned_keywords,     \* the banned_keywords argument, as configured
  foreground,          \* what get_foreground_window returns
  all_windows,         \* what get_all_windows returns
  window_ret,          \* the last query of window.py and what it returned
  \* --- notifier.py
  handled,             \* the last warning handle_focus_warning was given,
                       \* and the notifications it sent
  \* --- main.py, analyze_image
  context,             \* the window context and the short-term memory of
                       \* each of two cycles
  user_prompts,        \* the user prompts sent to the inference service
  \* --- database.py
  collection,          \* the records of the ChromaDB collection, in the order
                       \* collection.get returns them
  db_ret               \* the last call on the collection: what the collection
                       \* held before it and what the call returned

loopVars == <<pc, ram_size, threshold, capture_interval, min_cooldown,
             short_term_memory, distraction_count,
              history_file, vectordb, analysis, iter, cycle, appended>>

focusVars == <<today, daily_limit, focus_threshold, data, data_file, ret,
               run, ops>>

parseVars == <<raw_text, parsed>>

windowVars == <<banned_keywords, foreground, all_windows, window_ret>>
notifyVars == <<handled>>
promptVars == <<context, user_prompts>>
dbVars == <<collection, db_ret>>
toolVars == <<windowVars, notifyVars, promptVars, dbVars>>

vars == <<loopVars, focusVars, parseVars, toolVars>>

\* What the actions of main.py, of focus.py and of analyzer.py leave alone.
notLoopVars == <<focusVars, parseVars, toolVars>>
notFocusVars == <<loopVars, parseVars, toolVars>>
notParseVars == <<loopVars, focusVars, toolVars>>

\* ------------------------------------------------------------- main.py
None == [kind |-> "none"]
EmptyText == [kind |-> "empty"]

\* A cleaned response: its summary and whether its text (summary and tags,
\* lower-cased) contains one of YASAKLI_KELIMELER.
Responses == [kind : {"text"}, summary : Summaries, banned : BOOLEAN]

\* Outcomes of subprocess.run(["grim", ...]) in take_screenshot.
CaptureOutcomes == {"ok", "called_process_error", "file_not_found",
                    "no_file", "os_error"}
\* Outcomes of the body of analyze_image's try block.
InferenceOutcomes == {"ok", "blank", "error"}
\* Outcomes of subprocess.run(["notify-send", ...]) in check_distraction.
NotifyOutcomes == {"sent", "file_not_found", "os_error"}

FreshCycle ==
  [capture |-> "none", inference |-> "none", banned |-> FALSE,
   saves |-> 0, jsonl_ok |-> FALSE, vector_ok |-> FALSE,
   save_ret |-> FALSE, errors_logged |-> 0,
   elapsed |-> 0, sleep_time |-> 0,
   appends |-> 0, checks |-> 0, notified |-> 0,
   notify_failed |-> cycle.notify_failed,
   count_before |-> distraction_count,
   stm_before |-> short_term_memory,
   jsonl_before |-> Len(history_file),
   vector_before |-> Len(vectordb)]

\* take_screenshot: the path, or None for the failures it catches; any other
\* exception of subprocess.run leaves the function.
TakeScreenshotResult(outcome) ==
  CASE outcome = "ok" -> "path"
    [] outcome \in {"called_process_error", "file_not_found", "no_file"} -> "none"
    [] OTHER -> "raise"

\* A variant of AnalysisOf that hands a text back when the call fails.
AnalysisOfErrorAsText(outcome, r) ==
  CASE outcome = "ok" -> r
    [] outcome = "blank" -> EmptyText
    [] OTHER -> r

\* analyze_image: clean_output of the content, or None on any exception.
AnalysisOf(outcome, r) ==
  CASE outcome = "ok" -> r
    [] outcome = "blank" -> EmptyText
    [] OTHER -> None

\* Truthiness of `analysis` in `if analysis:`.
Truthy(a) == a.kind = "text"

\* A variant of StmAppend that never evicts.
StmAppendUnbounded(q, s, n) == IF n = 0 THEN q ELSE q \o <<s>>

\* deque(maxlen=n).append(s)
StmAppend(q, s, n) ==
  IF n = 0 THEN q
  ELSE IF Len(q) >= n THEN Tail(q) \o <<s>>
  ELSE q \o <<s>>

\* main.py 323-327
TakeScreenshot ==
  /\ pc = "loop_start"
  /\ iter < MaxCycles
  /\ \E outcome \in CaptureOutcomes :
       /\ cycle' = [FreshCycle EXCEPT !.capture = outcome]
       /\ pc' = CASE TakeScreenshotResult(outcome) = "path" -> "analyze"
                  [] TakeScreenshotResult(outcome) = "none" -> "sleep"
                  [] OTHER -> "crashed"
  /\ iter' = iter + 1
  /\ analysis' = None
  /\ UNCHANGED <<ram_size, threshold, capture_interval, min_cooldown,
                 short_term_memory, distraction_count,
                 history_file, vectordb, appended>>
  /\ UNCHANGED notLoopVars

\* main.py 328-330
AnalyzeImage ==
  /\ pc = "analyze"
  /\ \E outcome \in InferenceOutcomes,
        r \in {x \in Responses : x.summary = iter} :
       /\ analysis' = AnalysisOf(outcome, r)
       /\ cycle' = [cycle EXCEPT !.inference = outcome]
       /\ pc' = IF Truthy(AnalysisOf(outcome, r)) THEN "save" ELSE "sleep"
  /\ UNCHANGED <<ram_size, threshold, capture_interval, min_cooldown,
                 short_term_memory, distraction_count,
                 history_file, vectordb, iter, appended>>
  /\ UNCHANGED notLoopVars

\* datetime.now() at main.py 331: the local wall-clock time, which is set
\* back when daylight saving time ends or the clock is adjusted, so that a
\* reading is not bound by the readings before it.
ClockReadings == {1, 2}

\* A variant of WriteLine that writes at the head of the file.
WriteLineFirst(file, line) == <<line>> \o file

\* save_to_jsonl: open(HISTORY_FILE, "a") and write of one line.
WriteLine(file, line) == Append(file, line)

\* A variant of SaveMemoryResult that gives up after a failed log write.
SaveMemoryStopsAtFailure(jsonl_ok, vector_ok) ==
  [log_written |-> jsonl_ok,
   index_written |-> jsonl_ok /\ vector_ok,
   errors_logged |-> IF jsonl_ok /\ vector_ok THEN 0 ELSE 1,
   ret |-> jsonl_ok /\ vector_ok]

\* save_memory: save_to_jsonl and save_to_vectordb are called one after the
\* other, each catches and logs its own exception and returns whether it
\* wrote; jsonl_ok and vector_ok tell whether the store takes the write.
SaveMemoryResult(jsonl_ok, vector_ok) ==
  [log_written |-> jsonl_ok,
   index_written |-> vector_ok,
   errors_logged |-> (IF jsonl_ok THEN 0 ELSE 1) + (IF vector_ok THEN 0 ELSE 1),
   ret |-> jsonl_ok /\ vector_ok]

\* main.py 331-332 and database.save_memory: two independent writes, each
\* catching its own exception.
SaveMemory ==
  /\ pc = "save"
  /\ \E jsonl_ok \in BOOLEAN, vector_ok \in BOOLEAN, now \in ClockReadings :
       LET saved == SaveMemoryResult(jsonl_ok, vector_ok) IN
         /\ history_file' =
              IF saved.log_written
              THEN WriteLine(history_file,
                             [iteration |-> iter, timestamp |-> now])
              ELSE history_file
         /\ vectordb' = IF saved.index_written THEN Append(vectordb, iter)
                        ELSE vectordb
         /\ cycle' = [cycle EXCEPT !.saves = @ + 1, !.jsonl_ok = jsonl_ok,
                                   !.vector_ok = vector_ok,
                                   !.save_ret = saved.ret,
                                   !.errors_logged = saved.errors_logged]
  /\ pc' = "check"
  /\ UNCHANGED <<ram_size, threshold, capture_interval, min_cooldown,
                 short_term_memory, distraction_count,
                 analysis, iter, appended>>
  /\ UNCHANGED notLoopVars

\* check_distraction, lines 101-108: the counter after the keyword test.
CountAfterKeywordTest(count, banned) ==
  IF banned THEN count + 1
  ELSE IF count > 0 THEN count - 1 ELSE count

\* A variant of ThresholdReached that waits for one more distraction.
ThresholdExceeded(count, t) == count > t

\* check_distraction, line 110: whether notify-send is run.
ThresholdReached(count, t) == count >= t

\* main.py 333 and check_distraction
CheckDistraction ==
  /\ pc = "check"
  /\ LET c == CountAfterKeywordTest(distraction_count, analysis.banned) IN
       IF ThresholdReached(c, threshold)
       THEN \E outcome \in NotifyOutcomes :
              /\ distraction_count' = IF outcome = "sent" THEN 0 ELSE c
              /\ cycle' = [cycle EXCEPT !.banned = analysis.banned,
                             !.checks = @ + 1,
                             !.notified = IF outcome = "sent" THEN @ + 1 ELSE @,
                             !.notify_failed = @ \/ outcome # "sent"]
              /\ pc' = IF outcome = "os_error" THEN "crashed" ELSE "append"
       ELSE /\ distraction_count' = c
            /\ cycle' = [cycle EXCEPT !.banned = analysis.banned,
                                      !.checks = @ + 1]
            /\ pc' = "append"
  /\ UNCHANGED <<ram_size, threshold, capture_interval, min_cooldown,
                 short_term_memory, history_file,
                 vectordb, analysis, iter, appended>>
  /\ UNCHANGED notLoopVars

\* extract_summary: the text before the trailing tag group.
ExtractSummary(a) == a.summary

\* main.py 336-337
AppendMemory ==
  /\ pc = "append"
  /\ short_term_memory' =
       StmAppend(short_term_memory, ExtractSummary(analysis), ram_size)
  /\ appended' = Append(appended, ExtractSummary(analysis))
  /\ cycle' = [cycle EXCEPT !.appends = @ + 1]
  /\ pc' = "sleep"
  /\ UNCHANGED <<ram_size, threshold, capture_interval, min_cooldown,
                 distraction_count, history_file,
                 vectordb, analysis, iter>>
  /\ UNCHANGED notLoopVars

\* time.time() - loop_start at main.py 348, in whole seconds.
ElapsedTimes == {0, 3, 30}

\* A variant of SleepTime without the floor.
SleepTimeNoFloor(interval, cooldown, elapsed) == interval - elapsed

\* main.py 349: max(MIN_COOLDOWN, CAPTURE_INTERVAL - elapsed)
SleepTime(interval, cooldown, elapsed) == Max(cooldown, interval - elapsed)

\* main.py 342-351: the screenshot is removed (OSError is swallowed) and the
\* loop sleeps before the next iteration.
CleanupAndSleep ==
  /\ pc = "sleep"
  /\ \E elapsed \in ElapsedTimes :
       cycle' = [cycle EXCEPT
                   !.elapsed = elapsed,
                   !.sleep_time = SleepTime(capture_interval, min_cooldown,
                                            elapsed)]
  /\ pc' = "loop_start"
  /\ UNCHANGED <<ram_size, threshold, capture_interval, min_cooldown,
                 short_term_memory, distraction_count,
                 history_file, vectordb, analysis, iter, appended>>
  /\ UNCHANGED notLoopVars

\* main.py 318-355: main installs no signal handler and catches no
\* KeyboardInterrupt, so a SIGINT (raised as KeyboardInterrupt at the
\* statement being run; analyze_image catches Exception only) or a SIGTERM
\* ends the process wherever the iteration is.
Shutdown ==
  /\ pc \notin {"crashed", "stopped"}
  /\ pc' = "stopped"
  /\ UNCHANGED <<ram_size, threshold, capture_interval, min_cooldown,
                 short_term_memory, distraction_count,
                 history_file, vectordb, analysis, iter, cycle, appended>>
  /\ UNCHANGED notLoopVars

\* ------------------------------------------------------------ focus.py
NoKeyword == "None"
Keywords == {"youtube", NoKeyword}

\* FocusData(date=day)
FreshData(day) ==
  [date |-> day, distraction_seconds |-> 0, distraction_count |-> 0,
   focus_sessions |-> 0, last_distraction |-> NoKeyword]

\* FocusData.to_dict
ToDict(d) ==
  [date |-> d.date, distraction_seconds |-> d.distraction_seconds,
   distraction_count |-> d.distraction_count,
   focus_sessions |-> d.focus_sessions,
   last_distraction |-> d.last_distraction]

\* FocusData.from_dict
FromDict(j) ==
  [date |-> j.date, distraction_seconds |-> j.distraction_seconds,
   distraction_count |-> j.distraction_count,
   focus_sessions |-> j.focus_sessions,
   last_distraction |-> j.last_distraction]

NoFile == [kind |-> "absent"]
CorruptFile == [kind |-> "corrupt"]
JsonFile(d) == [kind |-> "json", dict |-> ToDict(d)]

\* FocusTracker._load_or_create
LoadOrCreate(file, day) ==
  IF file.kind = "json" /\ file.dict.date = day THEN FromDict(file.dict)
  ELSE FreshData(day)

\* FocusTracker._save: the write succeeds, open() fails (the file is kept),
\* or the write fails after open() truncated the file.
SaveOutcomes == {"ok", "open_failed", "write_failed"}

Save(file, d, outcome) ==
  CASE outcome = "ok" -> JsonFile(d)
    [] outcome = "open_failed" -> file
    [] OTHER -> CorruptFile

\* A variant of CheckWarnings that warns at 80% of the allowance already.
CheckWarningsAtFourFifths(d, limit, th) ==
  LET used == d.distraction_seconds
      remaining == limit - used
  IN  IF remaining <= 0 THEN "limit"
      ELSE IF 5 * used >= 4 * limit THEN "time"
      ELSE IF d.distraction_count >= th THEN "distraction"
      ELSE "none"

\* A variant of CheckWarnings that warns only above the threshold.
CheckWarningsAboveThreshold(d, limit, th) ==
  LET used == d.distraction_seconds
      remaining == limit - used
  IN  IF remaining <= 0 THEN "limit"
      ELSE IF 5 * used > 4 * limit THEN "time"
      ELSE IF d.distraction_count > th THEN "distraction"
      ELSE "none"

\* FocusTracker._check_warnings. used and daily_limit are integers, so the
\* float test used / daily_limit > 0.8 is 5 * used > 4 * daily_limit.
CheckWarnings(d, limit, th) ==
  LET used == d.distraction_seconds
      remaining == limit - used
  IN  IF remaining <= 0 THEN "limit"
      ELSE IF 5 * used > 4 * limit THEN "time"
      ELSE IF d.distraction_count >= th THEN "distraction"
      ELSE "none"

\* A variant of AddDistractionData that keeps the counters of another day.
AddDistractionNoRollover(d, day, seconds, keyword) ==
  [d EXCEPT !.distraction_seconds = @ + seconds,
            !.distraction_count = @ + 1,
            !.last_distraction = keyword]

\* add_distraction, lines 100-106: FocusTracker.data after the call.
AddDistractionData(d, day, seconds, keyword) ==
  LET d0 == IF d.date # day THEN FreshData(day) ELSE d
  IN  [d0 EXCEPT !.distraction_seconds = @ + seconds,
                 !.distraction_count = @ + 1,
                 !.last_distraction = keyword]

\* The seconds a caller may pass, around the thresholds of the allowance.
SecondsFor(limit) ==
  {0, 1, (4 * limit) \div 5, (81 * limit) \div 100, limit}

\* FocusTracker.add_distraction
AddDistraction ==
  /\ ops < MaxOps
  /\ \E seconds \in SecondsFor(daily_limit), keyword \in Keywords,
        outcome \in SaveOutcomes :
       LET d == AddDistractionData(data, today, seconds, keyword) IN
         /\ data' = d
         /\ data_file' = Save(data_file, d, outcome)
         /\ ret' = [op |-> "add", day |-> today, before |-> data,
                    prev_day |-> ret.day,
                    saved |-> outcome,
                    seconds |-> seconds,
                    keyword |-> keyword,
                    warning |-> CheckWarnings(d, daily_limit, focus_threshold),
                    warning_keyword |-> d.last_distraction]
         /\ run' = IF data.date # today THEN 1
                   ELSE IF run >= 0 THEN run + 1 ELSE -1
  /\ ops' = ops + 1
  /\ UNCHANGED <<today, daily_limit, focus_threshold>>
  /\ UNCHANGED notFocusVars

\* A variant of StartFocusSessionData that starts the day over.
StartFocusSessionClearsSeconds(d) ==
  [d EXCEPT !.focus_sessions = @ + 1, !.distraction_count = 0,
            !.distraction_seconds = 0]

\* start_focus_session, lines 149-150: FocusTracker.data after the call.
StartFocusSessionData(d) ==
  [d EXCEPT !.focus_sessions = @ + 1, !.distraction_count = 0]

\* FocusTracker.start_focus_session
StartFocusSession ==
  /\ ops < MaxOps
  /\ \E outcome \in SaveOutcomes :
       /\ data' = StartFocusSessionData(data)
       /\ data_file' = Save(data_file, StartFocusSessionData(data), outcome)
       /\ ret' = [op |-> "start", day |-> today, before |-> data,
                  saved |-> outcome]
  /\ run' = -1
  /\ ops' = ops + 1
  /\ UNCHANGED <<today, daily_limit, focus_threshold>>
  /\ UNCHANGED notFocusVars

\* get_stats, lines 158 and 167: round(min(100, (used / limit) * 100), 1)
\* when limit > 0 and 0 otherwise, in tenths of a percent. round() goes to
\* the nearer tenth; when the exact quotient lies halfway between two tenths
\* the float that stands for it lies on either side, so both tenths may come
\* out.
PercentagesOf(used, limit) ==
  IF limit <= 0 THEN {0}
  ELSE IF used >= limit THEN {1000}
  ELSE LET q == (1000 * used) \div limit
           r == (1000 * used) % limit
       IN  IF 2 * r < limit THEN {q}
           ELSE IF 2 * r > limit THEN {q + 1}
           ELSE {q, q + 1}

\* A variant of GetStatsResult whose remaining seconds are not floored.
GetStatsResultNoFloor(d, limit, pct) ==
  LET used == d.distraction_seconds
      remaining == limit - used
  IN  [date |-> d.date, used_seconds |-> used,
       remaining_seconds |-> remaining,
       percentage |-> pct,
       distraction_count |-> d.distraction_count,
       focus_sessions |-> d.focus_sessions,
       limit_reached |-> (remaining <= 0)]

\* FocusTracker.get_stats (the formatted strings aside); pct is the
\* percentage, in tenths.
GetStatsResult(d, limit, pct) ==
  LET used == d.distraction_seconds
      remaining == Max(0, limit - used)
  IN  [date |-> d.date, used_seconds |-> used,
       remaining_seconds |-> remaining,
       percentage |-> pct,
       distraction_count |-> d.distraction_count,
       focus_sessions |-> d.focus_sessions,
       limit_reached |-> (remaining <= 0)]

GetStats ==
  /\ ops < MaxOps
  /\ \E pct \in PercentagesOf(data.distraction_seconds, daily_limit) :
       ret' = [op |-> "stats", day |-> today, before |-> data,
               stats |-> GetStatsResult(data, daily_limit, pct)]
  /\ ops' = ops + 1
  /\ UNCHANGED <<today, daily_limit, focus_threshold, data, data_file, run>>
  /\ UNCHANGED notFocusVars

\* The calendar date changes while the tracker is alive.
NextDay ==
  /\ today < MaxDay
  /\ today' = today + 1
  /\ UNCHANGED <<daily_limit, focus_threshold, data, data_file, ret, run,
                 ops>>
  /\ UNCHANGED notFocusVars

\* The process is started again: FocusTracker.__init__. before is the state
\* the tracker of the process that ended held, prev_day the date of its last
\* call.
Restart ==
  /\ ops < MaxOps
  /\ data' = LoadOrCreate(data_file, today)
  /\ ret' = [op |-> "init", day |-> today, before |-> data,
             prev_day |-> ret.day]
  /\ run' = IF LoadOrCreate(data_file, today) = FreshData(today) THEN 0 ELSE -1
  /\ ops' = ops + 1
  /\ UNCHANGED <<today, daily_limit, focus_threshold, data_file>>
  /\ UNCHANGED notFocusVars

InitFocus ==
  /\ today = 1
  /\ daily_limit \in DailyLimits
  /\ focus_threshold \in 1..MaxFocusThreshold
  /\ data_file = NoFile
  /\ data = LoadOrCreate(NoFile, 1)
  /\ ret = [op |-> "init", day |-> 1, before |-> FreshData(1)]
  /\ run = 0
  /\ ops = 0

\* The tracker is not used by main.main: it stays as constructed.
IdleFocus ==
  /\ today = 1
  /\ daily_limit = 100
  /\ focus_threshold = 1
  /\ data_file = NoFile
  /\ data = FreshData(1)
  /\ ret = [op |-> "init", day |-> 1, before |-> FreshData(1)]
  /\ run = 0
  /\ ops = 0

\* A tracker whose day has gone some way: any allowance a caller may
\* configure, and any seconds add_distraction may have accumulated.
StatsLimits == {0, 3, 80, 1800}
UsedSeconds == (0..MaxUsed) \cup {23, 80, 1799, 1801}

InitStats ==
  /\ today = 1
  /\ daily_limit \in StatsLimits
  /\ focus_threshold = 1
  /\ data \in [date : {1}, distraction_seconds : UsedSeconds,
                distraction_count : 0..1, focus_sessions : 0..1,
                last_distraction : {NoKeyword}]
  /\ data_file = JsonFile(data)
  /\ ret = [op |-> "init", day |-> 1, before |-> data]
  /\ run = -1
  /\ ops = 0

NextStats == GetStats

NextFocus ==
  \/ AddDistraction
  \/ StartFocusSession
  \/ GetStats
  \/ NextDay
  \/ Restart

\* ---------------------------------------------------------- analyzer.py
\* A text is a sequence of tokens. "[", "]", ",", " " and "'" are the
\* characters the parser's patterns tell apart; every other token is a word
\* holding none of them.
Space == " "
Quote == "'"

\* str.lower, on the words that have upper-case letters
LowerToken(c) ==
  CASE c = "Genel" -> "genel"
    [] c = "YouTube" -> "youtube"
    [] c = "Cursor" -> "cursor"
    [] c = "GENEL" -> "genel"
    [] c = "Python" -> "python"
    [] c = "Chrome" -> "chrome"
    [] c = "Kod" -> "kod"
    [] c = "Rust" -> "rust"
    [] OTHER -> c

Lower(s) == [i \in 1..Len(s) |-> LowerToken(s[i])]

\* The first index >= i of s that holds no space, Len(s) + 1 if none.
RECURSIVE SkipSpaces(_, _)
SkipSpaces(s, i) ==
  IF i > Len(s) \/ s[i] # Space THEN i ELSE SkipSpaces(s, i + 1)

\* The last index <= i of s that holds no space, 0 if none.
RECURSIVE SkipSpacesBack(_, _)
SkipSpacesBack(s, i) ==
  IF i < 1 \/ s[i] # Space THEN i ELSE SkipSpacesBack(s, i - 1)

\* str.strip
Strip(s) == SubSeq(s, SkipSpaces(s, 1), SkipSpacesBack(s, Len(s)))

\* The first index >= i of s that holds c, 0 if none.
RECURSIVE IndexFrom(_, _, _)
IndexFrom(s, c, i) ==
  IF i > Len(s) THEN 0
  ELSE IF s[i] = c THEN i ELSE IndexFrom(s, c, i + 1)

\* Whether \[[^\]]+\] matches s at p, and where its "]" is.
Closing(s, p) == IndexFrom(s, "]", p + 1)
GroupAt(s, p) == p <= Len(s) /\ s[p] = "[" /\ Closing(s, p) >= p + 2

\* Where re.search(r'\[([^\]]+)\]', s) matches: the leftmost place, 0 if none.
RECURSIVE SearchGroup(_, _)
SearchGroup(s, p) ==
  IF p > Len(s) THEN 0
  ELSE IF GroupAt(s, p) THEN p ELSE SearchGroup(s, p + 1)

\* str.split(sep)
RECURSIVE SplitFrom(_, _, _)
SplitFrom(s, sep, i) ==
  LET k == IndexFrom(s, sep, i) IN
    IF k = 0 THEN <<SubSeq(s, i, Len(s))>>
    ELSE <<SubSeq(s, i, k - 1)>> \o SplitFrom(s, sep, k + 1)

Split(s, sep) == SplitFrom(s, sep, 1)

StripAll(ts) == [i \in 1..Len(ts) |-> Strip(ts[i])]

KeepTag(t) == t # <<>> /\ Lower(t) # <<"genel">>

\* OllamaAnalyzer._extract_tags
ExtractTags(text) ==
  LET p == SearchGroup(text, 1) IN
    IF p = 0 THEN <<>>
    ELSE SelectSeq(StripAll(Split(SubSeq(text, p + 1, Closing(text, p) - 1), ",")),
                   KeepTag)

\* re.sub(r'\s*\[[^\]]+\]\s*', '', s), from index i on
RECURSIVE RemoveGroupsFrom(_, _)
RemoveGroupsFrom(s, i) ==
  IF i > Len(s) THEN <<>>
  ELSE IF GroupAt(s, SkipSpaces(s, i))
       THEN RemoveGroupsFrom(s, SkipSpaces(s, Closing(s, SkipSpaces(s, i)) + 1))
       ELSE <<s[i]>> \o RemoveGroupsFrom(s, i + 1)

\* re.sub(r'^["\']|["\']$', '', s)
StripQuotes(s) ==
  LET first == Len(s) >= 1 /\ s[1] = Quote
      last == Len(s) >= 2 /\ s[Len(s)] = Quote
  IN  SubSeq(s, IF first THEN 2 ELSE 1, IF last THEN Len(s) - 1 ELSE Len(s))

\* re.sub(r'\s+', ' ', s)
RECURSIVE CollapseSpaces(_)
CollapseSpaces(s) ==
  IF s = <<>> THEN <<>>
  ELSE IF s[1] = Space
       THEN <<Space>> \o CollapseSpaces(SubSeq(s, SkipSpaces(s, 1), Len(s)))
       ELSE <<s[1]>> \o CollapseSpaces(Tail(s))

\* The length a summary is cut at, and what is kept of it.
MaxSummaryLen == 200
KeptSummaryLen == 197

Truncate(s) ==
  IF Len(s) > MaxSummaryLen
  THEN SubSeq(s, 1, KeptSummaryLen) \o <<".", ".", ".">>
  ELSE s

DefaultSummary == <<"Aktivite analiz edilemedi">>

\* OllamaAnalyzer._extract_summary
ExtractSummaryText(text) ==
  LET summary ==
        Truncate(CollapseSpaces(StripQuotes(Strip(RemoveGroupsFrom(text, 1)))))
  IN  IF summary # <<>> THEN summary ELSE DefaultSummary

\* keyword in text_lower
Contains(text, kw) ==
  \E i \in 1..(Len(text) - Len(kw) + 1) : SubSeq(text, i, i + Len(kw) - 1) = kw

\* The keyword tables of _infer_tags, in their order (Turkish letters are
\* written without their diacritics).
AppKeywords ==
  << <<<<"vs", " ", "code">>, "VS Code">>, <<<<"vscode">>, "VS Code">>,
     <<<<"visual", " ", "studio">>, "Visual Studio">>,
     <<<<"cursor">>, "Cursor">>, <<<<"sublime">>, "Sublime Text">>,
     <<<<"notepad">>, "Notepad++">>, <<<<"pycharm">>, "PyCharm">>,
     <<<<"intellij">>, "IntelliJ">>, <<<<"webstorm">>, "WebStorm">>,
     <<<<"android", " ", "studio">>, "Android Studio">>,
     <<<<"terminal">>, "Terminal">>, <<<<"powershell">>, "PowerShell">>,
     <<<<"cmd">>, "CMD">>, <<<<"chrome">>, "Chrome">>,
     <<<<"firefox">>, "Firefox">>, <<<<"edge">>, "Edge">>,
     <<<<"discord">>, "Discord">>, <<<<"slack">>, "Slack">>,
     <<<<"teams">>, "Teams">>, <<<<"spotify">>, "Spotify">>,
     <<<<"youtube">>, "YouTube">>, <<<<"netflix">>, "Netflix">>,
     <<<<"twitter">>, "Twitter">>, <<<<"reddit">>, "Reddit">> >>

LangKeywords ==
  << <<<<"python">>, "Python">>, <<<<"rust">>, "Rust">>,
     <<<<"go", " ">>, "Go">>, <<<<"golang">>, "Go">>,
     <<<<"javascript">>, "JavaScript">>, <<<<"typescript">>, "TypeScript">>,
     <<<<"react">>, "React">>, <<<<"vue">>, "Vue">>,
     <<<<"angular">>, "Angular">>, <<<<"c#">>, "C#">>, <<<<"c++">>, "C++">>,
     <<<<"java", " ">>, "Java">>, <<<<"kotlin">>, "Kotlin">>,
     <<<<"swift">>, "Swift">>, <<<<"html">>, "HTML">>, <<<<"css">>, "CSS">>,
     <<<<"sql">>, "SQL">> >>

ActivityKeywords ==
  << <<<<"kod">>, "Gelistirme">>, <<<<"gelistir">>, "Gelistirme">>,
     <<<<"duzenl">>, "Duzenleme">>, <<<<"yaz">>, "Yazma">>,
     <<<<"izl">>, "Izleme">>, <<<<"dinl">>, "Dinleme">>,
     <<<<"arastir">>, "Arastirma">>, <<<<"ogren">>, "Ogrenme">>,
     <<<<"test">>, "Test">>, <<<<"debug">>, "Hata Ayiklama">>,
     <<<<"derle">>, "Derleme">>, <<<<"build">>, "Derleme">> >>

\* A variant of FirstMatch in which the last key of the table that occurs wins.
FirstMatchLastKey(table, text, k) ==
  LET hits == {j \in k..Len(table) : Contains(text, table[j][1])}
  IN  IF hits = {} THEN <<>>
      ELSE <<<<table[CHOOSE j \in hits : \A h \in hits : h <= j][2]>>>>

\* for keyword, tag in table.items(): if keyword in text_lower: append; break
RECURSIVE FirstMatch(_, _, _)
FirstMatch(table, text, k) ==
  IF k > Len(table) THEN <<>>
  ELSE IF Contains(text, table[k][1]) THEN <<<<table[k][2]>>>>
  ELSE FirstMatch(table, text, k + 1)

\* The number of tags _infer_tags returns at most.
MaxInferredTags == 3

\* OllamaAnalyzer._infer_tags
InferTags(text) ==
  LET lower == Lower(text)
      tags == FirstMatch(AppKeywords, lower, 1)
              \o FirstMatch(LangKeywords, lower, 1)
              \o FirstMatch(ActivityKeywords, lower, 1)
  IN  IF tags = <<>> THEN <<<<"Aktivite">>>>
      ELSE SubSeq(tags, 1, Min(MaxInferredTags, Len(tags)))

\* OllamaAnalyzer._parse_response
ParseResponseResult(text) ==
  LET stripped == Strip(text)
      tags == ExtractTags(stripped)
      summary == ExtractSummaryText(stripped)
  IN  [summary |-> summary,
       tags |-> IF tags = <<>> THEN InferTags(summary) ELSE tags]

NotParsed == [summary |-> <<>>, tags |-> <<>>]

\* The replies explored: every text of at most MaxLen tokens over Alphabet,
\* the replies of the prompted form, a sentence followed by a group of up to
\* MaxTags tags, the replies that hold a bracketed aside before that group,
\* and the replies that list no tag.
Alphabet == {"[", "]", ",", Space, Quote, "a", "Genel", "kod"}
ShortTexts == UNION {[1..n -> Alphabet] : n \in 0..MaxLen}

Sentences == {<<>>, <<"a">>, <<"Kod", Space>>, <<"Chrome", Space, "Python", Space, "kod", Space>>}
TagTexts == {<<"b">>, <<"c">>}
TagLists == UNION {[1..n -> TagTexts] : n \in 1..MaxTags}

RECURSIVE Join(_, _)
Join(ts, sep) ==
  IF ts = <<>> THEN <<>>
  ELSE IF Len(ts) = 1 THEN ts[1]
  ELSE ts[1] \o sep \o Join(Tail(ts), sep)

Group(tags) == <<"[">> \o Join(tags, <<",", Space>>) \o <<"]">>

TaggedTexts == {s \o Group(ts) : s \in Sentences, ts \in TagLists}

Asides == {<<Space>>, <<Space, "a", Space>>}
TwoGroupTexts ==
  {s \o Group(<<g>>) \o m \o Group(ts) :
     s \in Sentences, g \in TagTexts, m \in Asides, ts \in TagLists}

\* The replies that list no tag: a sentence naming applications, languages
\* and activities, followed by nothing or by a group of placeholders.
UntaggedTexts ==
  {s \o g :
     s \in {<<"a", Space>>, <<"Rust", Space, "Python", Space>>,
            <<"kod", Space, "YouTube", Space>>,
            <<"Chrome", Space, "Cursor", Space, "Rust", Space, "Python",
              Space, "kod", Space>>},
     g \in {<<>>, <<"[", "Genel", "]">>,
            <<"[", "GENEL", ",", Space, "genel", "]">>,
            <<"[", Space, ",", "]">>}}

RawTexts == ShortTexts \cup TaggedTexts \cup TwoGroupTexts \cup UntaggedTexts

\* OllamaAnalyzer.analyze_image, line 135
ParseResponse ==
  /\ parsed = NotParsed
  /\ parsed' = ParseResponseResult(raw_text)
  /\ UNCHANGED raw_text
  /\ UNCHANGED notParseVars

InitParse ==
  /\ raw_text \in RawTexts
  /\ parsed = NotParsed

\* No reply is being parsed.
IdleParse ==
  /\ raw_text = <<>>
  /\ parsed = NotParsed

NextParse == ParseResponse

\* ------------------------------------------------------------ window.py
\* A window is its handle, its process name and its title; the texts are
\* sequences of words.
NoWindow == [hwnd |-> 0]

\* The windows get_all_windows may list: an editor, a browser and a player.
ListedWindows ==
  {[hwnd |-> 1, process_name |-> <<"code">>, title |-> <<"main.py">>],
   [hwnd |-> 2, process_name |-> <<"firefox">>, title |-> <<"YouTube">>],
   [hwnd |-> 3, process_name |-> <<"youtube">>, title |-> <<"a">>]}

\* A window of the player that has no title: get_all_windows leaves it out.
UntitledWindow ==
  [hwnd |-> 4, process_name |-> <<"youtube">>, title |-> <<>>]

\* get_all_windows: the visible windows that have a title, in z-order.
WindowLists ==
  {ws \in UNION {[1..n -> ListedWindows] : n \in 0..MaxWindows} :
     \A i \in 1..Len(ws) : \A j \in 1..Len(ws) : i # j => ws[i] # ws[j]}

\* get_env_list: the items of YASAKLI_KELIMELER as they are written.
KeywordLists ==
  UNION {[1..n -> {<<"youtube">>, <<"YouTube">>, <<"reddit">>}] :
           n \in 0..MaxKeywords}

\* f"{process_name} {title}".lower()
Combined(w) == Lower(w.process_name \o <<Space>> \o w.title)

\* window.check_distraction
CheckDistractionOf(process_name, title, keywords) ==
  \E k \in 1..Len(keywords) :
    Contains(Lower(process_name \o <<Space>> \o title), keywords[k])

\* get_window_context, lines 256-279: has_distraction
HasDistraction(active, windows, keywords) ==
  IF active = NoWindow THEN FALSE
  ELSE \E i \in 1..Len(windows) :
         CheckDistractionOf(windows[i].process_name, windows[i].title,
                            keywords)

\* for keyword in banned_keywords: if keyword in combined: return keyword
RECURSIVE FirstKeywordIn(_, _, _)
FirstKeywordIn(text, keywords, k) ==
  IF k > Len(keywords) THEN <<>>
  ELSE IF Contains(text, keywords[k]) THEN <<keywords[k]>>
  ELSE FirstKeywordIn(text, keywords, k + 1)

RECURSIVE FirstKeywordInWindows(_, _, _)
FirstKeywordInWindows(windows, keywords, i) ==
  IF i > Len(windows) THEN <<>>
  ELSE IF FirstKeywordIn(Combined(windows[i]), keywords, 1) # <<>>
       THEN FirstKeywordIn(Combined(windows[i]), keywords, 1)
       ELSE FirstKeywordInWindows(windows, keywords, i + 1)

\* check_any_distraction: <<keyword>>, or <<>> for None.
CheckAnyDistractionOf(active, windows, keywords) ==
  IF active # NoWindow /\ FirstKeywordIn(Combined(active), keywords, 1) # <<>>
  THEN FirstKeywordIn(Combined(active), keywords, 1)
  ELSE FirstKeywordInWindows(windows, keywords, 1)

\* window.check_distraction called on one of the windows
CheckWindow ==
  /\ window_ret.op = "none"
  /\ \E w \in ListedWindows \cup {UntitledWindow} :
       window_ret' = [op |-> "check", window |-> w,
                      match |-> CheckDistractionOf(w.process_name, w.title,
                                                   banned_keywords)]
  /\ UNCHANGED <<banned_keywords, foreground, all_windows>>
  /\ UNCHANGED <<loopVars, focusVars, parseVars, notifyVars, promptVars, dbVars>>

\* window.get_window_context
GetWindowContext ==
  /\ window_ret.op = "none"
  /\ window_ret' = [op |-> "context",
                    has_distraction |->
                      HasDistraction(foreground, all_windows, banned_keywords)]
  /\ UNCHANGED <<banned_keywords, foreground, all_windows>>
  /\ UNCHANGED <<loopVars, focusVars, parseVars, notifyVars, promptVars, dbVars>>

\* window.check_any_distraction
CheckAnyDistraction ==
  /\ window_ret.op = "none"
  /\ window_ret' = [op |-> "any",
                    keyword |-> CheckAnyDistractionOf(foreground, all_windows,
                                                      banned_keywords)]
  /\ UNCHANGED <<banned_keywords, foreground, all_windows>>
  /\ UNCHANGED <<loopVars, focusVars, parseVars, notifyVars, promptVars, dbVars>>

InitWindow ==
  /\ banned_keywords \in KeywordLists
  /\ foreground \in {NoWindow, UntitledWindow} \cup ListedWindows
  /\ all_windows \in WindowLists
  /\ window_ret = [op |-> "none"]

\* No window is being queried.
IdleWindow ==
  /\ banned_keywords = <<>>
  /\ foreground = NoWindow
  /\ all_windows = <<>>
  /\ window_ret = [op |-> "none"]

NextWindow ==
  \/ CheckWindow
  \/ GetWindowContext
  \/ CheckAnyDistraction

\* ---------------------------------------------------------- notifier.py
\* The calls of send_toast_notification that handle_focus_warning makes for a
\* FocusWarning of the given type and keyword.
NotificationsFor(warning_type, keyword) ==
  IF warning_type = "limit" THEN 1
  ELSE IF warning_type = "time" THEN 1
  ELSE IF warning_type = "distraction"
       THEN (IF keyword # NoKeyword /\ keyword # "" THEN 1 ELSE 0)
  ELSE 0

\* notifier.handle_focus_warning, given the warning add_distraction returned
HandleFocusWarning ==
  /\ ret.op = "add"
  /\ ret.warning # "none"
  /\ handled.call # ops
  /\ handled' = [op |-> "handled", call |-> ops,
                 warning_type |-> ret.warning,
                 keyword |-> ret.warning_keyword,
                 notifications |->
                   NotificationsFor(ret.warning, ret.warning_keyword)]
  /\ UNCHANGED <<loopVars, focusVars, parseVars, windowVars, promptVars, dbVars>>

\* No warning has been handled.
IdleNotify == handled = [op |-> "none", call |-> 0]

NextNotify ==
  \/ AddDistraction
  \/ HandleFocusWarning

\* ------------------------------------------------- main.py, analyze_image
\* USER_PROMPT_TEMPLATE: its literal text and its replacement fields (the
\* literal text is abridged, its letters written without diacritics).
UserPromptTemplate ==
  <<"EKRANI ANALIZ ET. Aktif: ", "{active_win}",
    " FORMAT KURALI: ... SIMDI EKRANA BAK VE YAZ:">>

\* str.format(**kwargs): every replacement field of the template is replaced
\* by the argument of its name; an argument the template does not name is
\* not used.
RECURSIVE Format(_, _)
Format(template, kwargs) ==
  IF template = <<>> THEN <<>>
  ELSE (IF Head(template) \in DOMAIN kwargs THEN kwargs[Head(template)]
        ELSE <<Head(template)>>) \o Format(Tail(template), kwargs)

\* The separator of the rendering (an arrow between two spaces) and the
\* number of entries it shows at most.
Arrow == " -> "
HistoryEntries == 3

\* analyze_image, lines 267-270
HistoryStr(memory) ==
  IF memory # <<>>
  THEN Join([i \in 1..Min(HistoryEntries, Len(memory)) |->
               <<memory[Len(memory) - Min(HistoryEntries, Len(memory)) + i]>>],
            <<Arrow>>)
  ELSE <<"Yeni oturum">>

\* analyze_image, lines 273-277
UserPrompt(active_win, background_apps, memory) ==
  Format(UserPromptTemplate,
         [f \in {"{active_win}", "{background_apps}", "{history}"} |->
            CASE f = "{active_win}" -> <<active_win>>
              [] f = "{background_apps}" -> <<background_apps>>
              [] f = "{history}" -> HistoryStr(memory)])

\* short_term_memory: up to MaxMemory summaries, oldest first.
Memories == UNION {[1..n -> {"a", "b"}] : n \in 0..MaxMemory}

\* analyze_image up to the call of the inference service, in the next of the
\* two cycles
BuildUserPrompt ==
  /\ Len(user_prompts) < Len(context.memories)
  /\ user_prompts' =
       Append(user_prompts,
              UserPrompt(context.active_win, context.background_apps,
                         context.memories[Len(user_prompts) + 1]))
  /\ UNCHANGED context
  /\ UNCHANGED <<loopVars, focusVars, parseVars, windowVars, notifyVars, dbVars>>

InitPrompt ==
  /\ context \in [active_win : {"code | main.py", "Bilinmiyor"},
                   background_apps : {"firefox, code", "Yok"},
                   memories : Memories \X Memories]
  /\ user_prompts = <<>>

\* No prompt is being built.
IdlePrompt ==
  /\ context = [active_win |-> "Bilinmiyor", background_apps |-> "Yok",
                memories |-> <<>>]
  /\ user_prompts = <<>>

\* ---------------------------------------------------------- database.py
\* A record of the collection is its id, its document and its metadata: the
\* timestamp (an ISO text, as its date and its hour:minute) and the fields
\* date and time, which the records of older versions do not have.
NoField == 0
Dates == 1..2
Documents == {<<"a", Space, "[", "b", "]">>, <<"c">>}
Timestamps == [date : Dates, time : 1..2]

\* parse_timestamp, for a timestamp that holds a "T"
ParseTimestamp(timestamp) == <<timestamp.date, timestamp.time>>

\* The metadata save_to_vectordb writes, lines 84-93, and the metadata the
\* versions before it wrote.
NewMeta(timestamp) ==
  [timestamp |-> timestamp, date |-> ParseTimestamp(timestamp)[1],
   time |-> ParseTimestamp(timestamp)[2]]
LegacyMeta(timestamp) ==
  [timestamp |-> timestamp, date |-> NoField, time |-> NoField]

\* The collections the program may find: up to MaxRecords records, with the
\* ids 1, 2, ... in the order they were added.
Collections ==
  UNION {{[i \in 1..n |-> [id |-> i, document |-> f[i][1], meta |-> f[i][2]]] :
            f \in [1..n -> Documents \X
                             ({NewMeta(t) : t \in Timestamps}
                              \cup {LegacyMeta(t) : t \in Timestamps})]} :
         n \in 0..MaxRecords}

\* extract_content
ExtractContent(text) ==
  IF IndexFrom(text, "[", 1) # 0
  THEN Strip(SubSeq(text, 1, IndexFrom(text, "[", 1) - 1))
  ELSE Strip(text)

\* list.sort(key=lambda x: x["time"]): a stable sort
RECURSIVE InsertByTime(_, _)
InsertByTime(log, sorted) ==
  IF sorted = <<>> THEN <<log>>
  ELSE IF Head(sorted).time <= log.time
       THEN <<Head(sorted)>> \o InsertByTime(log, Tail(sorted))
       ELSE <<log>> \o sorted

RECURSIVE SortByTime(_)
SortByTime(logs) ==
  IF logs = <<>> THEN <<>>
  ELSE InsertByTime(logs[Len(logs)], SortByTime(SubSeq(logs, 1, Len(logs) - 1)))

HasDate(r) == r.meta.date # NoField

\* get_logs_by_date, lines 146-150 and 153-159
NewFormatLog(r) ==
  [time |-> IF r.meta.time # NoField THEN r.meta.time
            ELSE r.meta.timestamp.time,
   content |-> ExtractContent(r.document)]
LegacyLog(r) ==
  [time |-> r.meta.timestamp.time, content |-> ExtractContent(r.document)]

\* get_logs_by_date, when the collection answers
GetLogsByDateResult(coll, target_date) ==
  LET results == SelectSeq(coll, LAMBDA r : r.meta.date = target_date)
      logs == [i \in 1..Len(results) |-> NewFormatLog(results[i])]
      all_results ==
        SelectSeq(coll, LAMBDA r : r.meta.timestamp.date = target_date)
      fallback == [i \in 1..Len(all_results) |-> LegacyLog(all_results[i])]
  IN  SortByTime(IF logs = <<>> THEN fallback ELSE logs)

\* database.get_logs_by_date
GetLogsByDate ==
  /\ db_ret.calls < MaxCalls
  /\ \E target_date \in Dates, outcome \in {"ok", "fail"} :
       db_ret' = [op |-> "logs", calls |-> db_ret.calls + 1,
                  before |-> collection, target_date |-> target_date,
                  failed |-> outcome = "fail",
                  ret |-> IF outcome = "ok"
                          THEN GetLogsByDateResult(collection, target_date)
                          ELSE <<>>,
                  after_migration |-> FALSE]
  /\ UNCHANGED collection
  /\ UNCHANGED <<loopVars, focusVars, parseVars, windowVars, notifyVars, promptVars>>

\* migrate_old_records, lines 291-319, from the i-th record of results on:
\* the collection and the count when the loop ends or a call on the
\* collection raises; `left` is the number of calls that still succeed.
RECURSIVE MigrateFrom(_, _, _, _, _)
MigrateFrom(coll, results, i, migrated, left) ==
  IF i > Len(results)
  THEN [collection |-> coll, migrated |-> migrated, failed |-> FALSE]
  ELSE IF HasDate(results[i])
  THEN MigrateFrom(coll, results, i + 1, migrated, left)
  ELSE IF left = 0
  THEN [collection |-> coll, migrated |-> migrated, failed |-> TRUE]
  ELSE IF left = 1
  THEN [collection |-> SelectSeq(coll, LAMBDA r : r.id # results[i].id),
        migrated |-> migrated, failed |-> TRUE]
  ELSE MigrateFrom(Append(SelectSeq(coll, LAMBDA r : r.id # results[i].id),
                          [results[i] EXCEPT
                             !.meta = NewMeta(results[i].meta.timestamp)]),
                   results, i + 1, migrated + 1, left - 2)

\* migrate_old_records, whose first `succeed` calls on the collection succeed
MigrateOldRecordsResult(coll, succeed) ==
  IF succeed = 0
  THEN [collection |-> coll, ret |-> 0, failed |-> TRUE]
  ELSE IF coll = <<>>
  THEN [collection |-> coll, ret |-> 0, failed |-> FALSE]
  ELSE LET r == MigrateFrom(coll, coll, 1, 0, succeed - 1)
       IN  [collection |-> r.collection,
            ret |-> IF r.failed THEN 0 ELSE r.migrated,
            failed |-> r.failed]

\* database.migrate_old_records
MigrateOldRecords ==
  /\ db_ret.calls < MaxCalls
  /\ \E succeed \in 0..(1 + 2 * Len(collection)) :
       LET r == MigrateOldRecordsResult(collection, succeed) IN
         /\ collection' = r.collection
         /\ db_ret' = [op |-> "migrate", calls |-> db_ret.calls + 1,
                       before |-> collection, target_date |-> NoField,
                       failed |-> r.failed, ret |-> r.ret,
                       after_migration |->
                         db_ret.op = "migrate" /\ ~db_ret.failed]
  /\ UNCHANGED <<loopVars, focusVars, parseVars, windowVars, notifyVars, promptVars>>

NoCall ==
  [op |-> "none", calls |-> 0, before |-> <<>>, target_date |-> NoField,
   failed |-> FALSE, ret |-> 0, after_migration |-> FALSE]

InitDb ==
  /\ collection \in Collections
  /\ db_ret = NoCall

\* The collection is not queried.
IdleDb ==
  /\ collection = <<>>
  /\ db_ret = NoCall

NextDb ==
  \/ GetLogsByDate
  \/ MigrateOldRecords

IdleTools == IdleWindow /\ IdleNotify /\ IdlePrompt /\ IdleDb

\* ------------------------------------------------------ specifications
InitLoop ==
  /\ pc = "loop_start"
  /\ ram_size \in 0..MaxRamSize
  /\ threshold \in 1..MaxThreshold
  /\ short_term_memory = <<>>
  /\ distraction_count = 0
  /\ history_file = <<>>
  /\ vectordb = <<>>
  /\ analysis = None
  /\ iter = 0
  /\ appended = <<>>
  /\ cycle = [capture |-> "none", inference |-> "none", banned |-> FALSE,
              saves |-> 0, jsonl_ok |-> FALSE, vector_ok |-> FALSE,
              save_ret |-> FALSE, errors_logged |-> 0,
              elapsed |-> 0, sleep_time |-> 0,
              appends |-> 0, checks |-> 0, notified |-> 0,
              notify_failed |-> FALSE,
              count_before |-> 0, stm_before |-> <<>>,
              jsonl_before |-> 0, vector_before |-> 0]

\* The defaults of config.py.
CaptureInterval == 20
MinCooldown == 5

DefaultTiming ==
  /\ capture_interval = CaptureInterval
  /\ min_cooldown = MinCooldown

\* main.main is not running.
InitIdleLoop == InitLoop /\ DefaultTiming /\ ram_size = 1 /\ threshold = 1

Init == InitLoop /\ DefaultTiming /\ IdleFocus /\ IdleParse /\ IdleTools

Next ==
  \/ TakeScreenshot
  \/ AnalyzeImage
  \/ SaveMemory
  \/ CheckDistraction
  \/ AppendMemory
  \/ CleanupAndSleep

Spec == Init /\ [][Next]_vars

InitFocusSpec == InitIdleLoop /\ InitFocus /\ IdleParse /\ IdleTools

SpecFocus == InitFocusSpec /\ [][NextFocus]_vars

InitParseSpec == InitIdleLoop /\ IdleFocus /\ InitParse /\ IdleTools

SpecParse == InitParseSpec /\ [][NextParse]_vars

\* The loop with the signals the process may receive and the timing the
\* environment may configure.
\* CAPTURE_INTERVAL and MIN_COOLDOWN as the environment may set them.
Intervals == {2, 20}
Cooldowns == {0, 5}

InitRun ==
  /\ InitLoop
  /\ ram_size = 1
  /\ threshold = 1
  /\ capture_interval \in Intervals
  /\ min_cooldown \in Cooldowns
  /\ IdleFocus
  /\ IdleParse
  /\ IdleTools

NextRun ==
  \/ TakeScreenshot
  \/ AnalyzeImage
  \/ SaveMemory
  \/ CheckDistraction
  \/ AppendMemory
  \/ CleanupAndSleep
  \/ Shutdown

SpecRun == InitRun /\ [][NextRun]_vars

InitStatsSpec == InitIdleLoop /\ InitStats /\ IdleParse /\ IdleTools

SpecStats == InitStatsSpec /\ [][NextStats]_vars

InitWindowSpec ==
  InitIdleLoop /\ IdleFocus /\ IdleParse /\ InitWindow /\ IdleNotify
  /\ IdlePrompt /\ IdleDb

SpecWindow == InitWindowSpec /\ [][NextWindow]_vars

\* The tracker with the handler of its warnings.
SpecNotify == InitFocusSpec /\ [][NextNotify]_vars

\* The user prompts of two cycles in the same window context.
InitPromptSpec ==
  InitIdleLoop /\ IdleFocus /\ IdleParse /\ IdleWindow /\ IdleNotify
  /\ InitPrompt /\ IdleDb

SpecPrompt == InitPromptSpec /\ [][BuildUserPrompt]_vars

\* The queries and the migration of a collection of new and legacy records.
InitDbSpec ==
  InitIdleLoop /\ IdleFocus /\ IdleParse /\ IdleWindow /\ IdleNotify
  /\ IdlePrompt /\ InitDb

SpecDb == InitDbSpec /\ [][NextDb]_vars

\* ---------------------------------------------------------------- claims

\* C1: a cycle in which capture succeeds, inference returns a tagged response
\* and no disallowed keyword matches persists exactly one record, appends
\* exactly one entry to short-term memory, applies the non-distraction
\* transition to the counter (one less, floored at 0) and sends no warning,
\* from any prior state. Stated for the cycles whose two store writes were
\* accepted, and read when the iteration has reached its sleep.
C1_CleanCycleEffects ==
  (/\ pc = "sleep"
   /\ cycle.capture = "ok"
   /\ cycle.inference = "ok"
   /\ ~cycle.banned
   /\ cycle.jsonl_ok
   /\ cycle.vector_ok)
  => /\ Len(history_file) = cycle.jsonl_before + 1
     /\ Len(vectordb) = cycle.vector_before + 1
     /\ cycle.appends = 1
     /\ Len(appended) >= 1
     /\ appended[Len(appended)] = analysis.summary
     /\ distraction_count = Max(cycle.count_before - 1, 0)
     /\ cycle.notified = 0

\* C2: a cycle in which capture fails, or the inference call fails, writes no
\* record to history.jsonl, adds none to the collection and leaves
\* short-term memory as it was.
C2_FailedCycleWritesNothing ==
  (cycle.capture \notin {"none", "ok"} \/ cycle.inference = "error")
  => /\ cycle.saves = 0
     /\ Len(history_file) = cycle.jsonl_before
     /\ Len(vectordb) = cycle.vector_before
     /\ cycle.appends = 0
     /\ short_term_memory = cycle.stm_before

\* An iteration whose inference call failed, after earlier iterations wrote
\* records and filled short-term memory.
C2_Witness ==
  /\ pc = "sleep"
  /\ cycle.capture = "ok"
  /\ cycle.inference = "error"
  /\ Len(history_file) >= 1
  /\ Len(vectordb) >= 1
  /\ short_term_memory # <<>>

\* C3: no failure of a collaborator terminates the loop: main.main is never
\* left by an exception, whatever capture, inference, the window query and
\* the notifier raise.
C3_LoopNeverTerminates == pc # "crashed"

\* C4: short-term memory holds exactly the last min(n, N) appended summaries
\* in append order, N being the configured capacity; its length never
\* exceeds N.
C4_MemoryHoldsLastAppends ==
  /\ Len(short_term_memory) = Min(Len(appended), ram_size)
  /\ Len(short_term_memory) <= ram_size
  /\ \A i \in 1..Len(short_term_memory) :
       short_term_memory[i] =
         appended[Len(appended) - Len(short_term_memory) + i]

\* More summaries were appended than the buffer holds, and the evicted one
\* differs from those kept.
C4_Witness ==
  /\ ram_size >= 1
  /\ Len(appended) > ram_size
  /\ appended[1] # appended[Len(appended)]

\* C5: after adding the seconds, add_distraction returns one outcome by
\* strict priority: "limit" if the accumulated seconds reach the allowance,
\* otherwise "time" if they are above 80% of it, otherwise "distraction" if
\* distraction_count reaches the threshold, otherwise nothing. From a fresh
\* day, one call with seconds = allowance returns "limit" and one call with
\* seconds = 0.81 * allowance returns "time".
C5_WarningByPriority ==
  ret.op = "add" =>
    LET used == data.distraction_seconds IN
      /\ ret.warning =
           IF used >= daily_limit THEN "limit"
           ELSE IF 100 * used > 80 * daily_limit THEN "time"
           ELSE IF data.distraction_count >= focus_threshold THEN "distraction"
           ELSE "none"
      /\ (run = 1 /\ ret.seconds = daily_limit) => ret.warning = "limit"
      /\ (run = 1 /\ 100 * ret.seconds = 81 * daily_limit)
           => ret.warning = "time"

\* The first call of a day, with 81% of the allowance.
C5_Witness ==
  /\ ret.op = "add"
  /\ run = 1
  /\ 100 * ret.seconds = 81 * daily_limit
  /\ ret.warning = "time"
  /\ data.distraction_count >= focus_threshold

\* C6: from a fresh day, T calls in a row whose accumulated seconds stay at or
\* below 80% of the allowance return nothing on calls 1..T-1 and
\* "distraction" on call T.
C6_ThresholdOnCallT ==
  (/\ ret.op = "add"
   /\ run >= 1
   /\ 5 * data.distraction_seconds <= 4 * daily_limit)
  => /\ run < focus_threshold => ret.warning = "none"
     /\ run = focus_threshold => ret.warning = "distraction"

\* The T-th call in a row, T > 1, with seconds accumulated below 80%.
C6_Witness ==
  /\ ret.op = "add"
  /\ focus_threshold >= 2
  /\ run = focus_threshold
  /\ data.distraction_seconds >= 1
  /\ 5 * data.distraction_seconds <= 4 * daily_limit
  /\ ret.warning = "distraction"

\* C7: when data.date is not the current date at a call of add_distraction,
\* the counters are reset before the accumulation, whatever they held, and
\* the warning is evaluated on the fresh state.
C7_RolloverResetsBeforeAdding ==
  (ret.op = "add" /\ ret.before.date # ret.day)
  => /\ data = [date |-> ret.day,
                distraction_seconds |-> ret.seconds,
                distraction_count |-> 1,
                focus_sessions |-> 0,
                last_distraction |-> ret.keyword]
     /\ ret.warning =
          IF ret.seconds >= daily_limit THEN "limit"
          ELSE IF 5 * ret.seconds > 4 * daily_limit THEN "time"
          ELSE IF 1 >= focus_threshold THEN "distraction"
          ELSE "none"

\* A call on a new day, the state of the day before holding seconds, a count,
\* a session and a keyword.
C7_Witness ==
  /\ ret.op = "add"
  /\ ret.before.date # ret.day
  /\ ret.before.distraction_seconds > 0
  /\ ret.before.distraction_count > 0
  /\ ret.before.last_distraction # NoKeyword
  /\ ret.keyword = NoKeyword

\* C8: at every read (get_stats) and every mutation (add_distraction and
\* start_focus_session) data.date is the current date: a stale state is
\* replaced by a fresh one before a value is returned or changed.
C8_DayIsCurrentAtEveryCall ==
  ret.op \in {"add", "start", "stats"}
  => /\ data.date = ret.day
     /\ ret.op = "stats" => ret.stats.date = ret.day

\* C9: for every non-empty reply, _parse_response returns a non-empty summary
\* and between 1 and 4 tags.
C9_SummaryAndOneToFourTags ==
  (raw_text # <<>> /\ parsed # NotParsed)
  => /\ parsed.summary # <<>>
     /\ Len(parsed.tags) >= 1
     /\ Len(parsed.tags) <= 4

\* The last index of s that holds c, 0 if none.
RECURSIVE LastIndexOf(_, _, _)
LastIndexOf(s, c, i) ==
  IF i < 1 THEN 0
  ELSE IF s[i] = c THEN i ELSE LastIndexOf(s, c, i - 1)

\* The trailing bracket group of a reply: the reply ends with "]" and the
\* last "[" before it opens a group that is not empty.
TrailingGroupStart(t) ==
  IF Len(t) >= 3 /\ t[Len(t)] = "]"
     /\ LastIndexOf(t, "[", Len(t)) \in 1..(Len(t) - 2)
     /\ IndexFrom(t, "]", LastIndexOf(t, "[", Len(t))) = Len(t)
  THEN LastIndexOf(t, "[", Len(t))
  ELSE 0

\* The brackets of t pair up without nesting; open tells whether a group is
\* open before index i.
RECURSIVE BracketsPairFrom(_, _, _)
BracketsPairFrom(t, i, open) ==
  IF i > Len(t) THEN ~open
  ELSE IF t[i] = "[" THEN ~open /\ BracketsPairFrom(t, i + 1, TRUE)
  ELSE IF t[i] = "]" THEN open /\ BracketsPairFrom(t, i + 1, FALSE)
  ELSE BracketsPairFrom(t, i + 1, open)

\* The number of "[" in t.
RECURSIVE CountGroups(_)
CountGroups(t) ==
  IF t = <<>> THEN 0
  ELSE (IF Head(t) = "[" THEN 1 ELSE 0) + CountGroups(Tail(t))

\* C10: the tags are the contents of the trailing bracket group, split on
\* commas, trimmed, in order, without empty entries and without the
\* placeholder, and the summary is the text before that group (trimmed, as
\* every summary is); for one group and for several. Stated for the replies
\* whose trailing group lists a tag, whose text before it is not empty and whose
\* brackets pair up without nesting.
C10_TagsOfTrailingGroup ==
  LET t == Strip(raw_text)
      p == TrailingGroupStart(t)
      listed == SelectSeq(StripAll(Split(SubSeq(t, p + 1, Len(t) - 1), ",")),
                          KeepTag)
      before == CollapseSpaces(StripQuotes(Strip(SubSeq(t, 1, p - 1))))
  IN  (/\ parsed # NotParsed
       /\ BracketsPairFrom(t, 1, FALSE)
       /\ p # 0
       /\ listed # <<>>
       /\ before # <<>>)
      => /\ parsed.tags = listed
         /\ parsed.summary = before

\* C11 (as first stated): start_focus_session increases focus_sessions by
\* 1, sets distraction_count to 0, leaves distraction_seconds, the date and
\* last_distraction as they were, and the store holds the resulting state.
C11_StartSessionPersists ==
  ret.op = "start"
  => /\ data = [ret.before EXCEPT !.focus_sessions = @ + 1,
                                  !.distraction_count = 0]
     /\ data_file = JsonFile(data)

\* C11: start_focus_session increases focus_sessions by 1, sets
\* distraction_count to 0 and leaves distraction_seconds, the date and
\* last_distraction as they were; the store holds the resulting state when
\* the write of _save succeeded, and the call returns normally when it did
\* not.
C11_StartSessionEffect ==
  ret.op = "start"
  => /\ data.focus_sessions = ret.before.focus_sessions + 1
     /\ data.distraction_count = 0
     /\ data.distraction_seconds = ret.before.distraction_seconds
     /\ data.date = ret.before.date
     /\ data.last_distraction = ret.before.last_distraction
     /\ ret.saved = "ok" => data_file = JsonFile(data)

\* A session started after distractions were counted, and saved.
C11_Witness ==
  /\ ret.op = "start"
  /\ ret.saved = "ok"
  /\ ret.before.distraction_count > 0
  /\ ret.before.distraction_seconds > 0
  /\ ret.before.last_distraction # NoKeyword
  /\ data_file = JsonFile(data)
\* C12: in a cycle where no banned keyword is found, check_distraction
\* lowers distraction_count by 1, not below 0, and evaluates no warning:
\* nothing is dispatched, whatever the counter held before the cycle.
C12_NonDistractionNeverWarns ==
  (cycle.checks = 1 /\ ~cycle.banned)
  => /\ cycle.notified = 0
     /\ distraction_count =
          IF cycle.count_before > 0 THEN cycle.count_before - 1 ELSE 0
\* C13 (as first stated): get_stats changes no field of the state and
\* returns used = distraction_seconds, remaining = max(0, allowance - used),
\* a percentage between 0 and 100 equal to min(100, 100 * used / allowance)
\* (taken for the allowances above 0, where the quotient exists), and
\* limit_reached exactly when used >= allowance.
C13_StatsExactPercentage ==
  ret.op = "stats"
  => LET used == data.distraction_seconds IN
       /\ data = ret.before
       /\ ret.stats.used_seconds = used
       /\ ret.stats.remaining_seconds = Max(0, daily_limit - used)
       /\ ret.stats.limit_reached <=> used >= daily_limit
       /\ ret.stats.percentage \in 0..1000
       /\ daily_limit > 0
            => ret.stats.percentage * daily_limit
                 = Min(1000 * daily_limit, 1000 * used)

\* C13: get_stats changes no field of the state and returns
\* used = distraction_seconds, remaining = max(0, allowance - used),
\* limit_reached exactly when used >= allowance, and a percentage between 0
\* and 100 that is min(100, 100 * used / allowance) rounded to one decimal
\* (at most 0.05 away from it) for an allowance above 0, and 0 for the
\* allowance 0.
C13_StatsRoundedPercentage ==
  ret.op = "stats"
  => LET used == data.distraction_seconds
         exact == Min(1000 * daily_limit, 1000 * used)
         shown == ret.stats.percentage * daily_limit
     IN  /\ data = ret.before
         /\ ret.stats.used_seconds = used
         /\ ret.stats.remaining_seconds = Max(0, daily_limit - used)
         /\ ret.stats.limit_reached <=> used >= daily_limit
         /\ ret.stats.percentage \in 0..1000
         /\ daily_limit > 0
              => /\ 2 * (shown - exact) <= daily_limit
                 /\ 2 * (exact - shown) <= daily_limit
         /\ daily_limit = 0 => ret.stats.percentage = 0

\* Statistics read past the allowance: the remainder is floored and the
\* percentage is capped.
C13_Witness ==
  /\ ret.op = "stats"
  /\ daily_limit > 0
  /\ data.distraction_seconds > daily_limit
  /\ ret.stats.remaining_seconds = 0
  /\ ret.stats.percentage = 1000
  /\ ret.stats.limit_reached
\* C14: no iteration is left half-committed. Between two iterations, the
\* last one has either written nothing to the two stores, or it has written
\* its record to the log, appended its summary to short_term_memory and run
\* check_distraction; and the appends to short_term_memory are as many as
\* the lines of the log.
C14_NoHalfCommittedIteration ==
  pc \in {"sleep", "loop_start"}
  => /\ \/ /\ Len(history_file) = cycle.jsonl_before
           /\ Len(vectordb) = cycle.vector_before
        \/ /\ Len(history_file) = cycle.jsonl_before + 1
           /\ cycle.appends = 1
           /\ cycle.checks = 1
     /\ Len(appended) = Len(history_file)
\* C15 (as first stated): records are written in iteration order, and the
\* timestamps of the lines of the log never decrease in file order.
C15_TimestampsNeverDecrease ==
  \A i \in 1..Len(history_file) : \A j \in 1..Len(history_file) :
    i < j => /\ history_file[i].iteration < history_file[j].iteration
             /\ history_file[i].timestamp <= history_file[j].timestamp

\* C15: iterations never overlap and records are written in iteration
\* order: a line of the log belongs to a later iteration than every line
\* before it, and to no iteration that has not started.
C15_RecordsInIterationOrder ==
  /\ \A i \in 1..Len(history_file) : \A j \in 1..Len(history_file) :
       i < j => history_file[i].iteration < history_file[j].iteration
  /\ \A i \in 1..Len(history_file) : history_file[i].iteration \in 1..iter
  /\ Len(history_file) >= cycle.jsonl_before
  /\ Len(history_file) <= cycle.jsonl_before + 1

\* Two records in the log, the later one with the earlier timestamp.
C15_Witness ==
  /\ Len(history_file) >= 2
  /\ history_file[2].iteration > history_file[1].iteration
  /\ history_file[2].timestamp < history_file[1].timestamp
\* C16: a shutdown requested from outside stops the loop between two
\* iterations or lets the iteration in flight finish: the loop is never
\* stopped after the iteration's record has reached the log and before its
\* append to short_term_memory and its check_distraction.
C16_ShutdownNeverSplitsIteration ==
  (pc = "stopped" /\ Len(history_file) = cycle.jsonl_before + 1)
  => /\ cycle.appends = 1
     /\ cycle.checks = 1
\* C17: save_memory makes the write to the log and the write to the index
\* as two independent attempts: a failure of either is logged, does not keep
\* the other from being made and does not undo it, and save_memory returns
\* true only when both writes succeeded.
C17_IndependentWrites ==
  cycle.saves = 1
  => /\ Len(history_file) =
          cycle.jsonl_before + (IF cycle.jsonl_ok THEN 1 ELSE 0)
     /\ Len(vectordb) =
          cycle.vector_before + (IF cycle.vector_ok THEN 1 ELSE 0)
     /\ cycle.errors_logged =
          (IF cycle.jsonl_ok THEN 0 ELSE 1) + (IF cycle.vector_ok THEN 0 ELSE 1)
     /\ cycle.save_ret <=> (cycle.jsonl_ok /\ cycle.vector_ok)

\* The log write failed and the index write was made all the same.
C17_Witness ==
  /\ cycle.saves = 1
  /\ ~cycle.jsonl_ok
  /\ cycle.vector_ok
  /\ Len(history_file) = cycle.jsonl_before
  /\ Len(vectordb) = cycle.vector_before + 1
  /\ ~cycle.save_ret

\* C18: after each iteration the loop sleeps
\* max(MIN_COOLDOWN, CAPTURE_INTERVAL - elapsed): the sleep is never shorter
\* than the minimum cooldown, and the time from the start of an iteration to
\* the start of the next is never less than the interval.
C18_SleepFloorAndCadence ==
  (pc = "loop_start" /\ iter > 0)
  => /\ cycle.sleep_time =
          Max(min_cooldown, capture_interval - cycle.elapsed)
     /\ cycle.sleep_time >= min_cooldown
     /\ cycle.elapsed + cycle.sleep_time >= capture_interval

\* An iteration that took longer than the interval, and one that did not.
C18_Witness ==
  /\ pc = "loop_start"
  /\ iter > 0
  /\ cycle.elapsed > capture_interval
  /\ min_cooldown > 0
  /\ cycle.sleep_time = min_cooldown
\* C19: a store that cannot be opened or read at startup aborts the startup
\* with an error: no tracker is constructed over an unreadable store.
C19_UnreadableStoreAbortsStartup ==
  (ret.op = "init" /\ ops > 0) => data_file.kind # "corrupt"

\* C20: the state survives a restart within the day. A tracker constructed
\* on the store, on the day of the last call of the tracker before it, holds
\* the state that tracker held in memory, field by field. Taken for the
\* restarts that find that state written in the store.
C20_StateSurvivesRestart ==
  (/\ ret.op = "init"
   /\ ops > 0
   /\ ret.prev_day = ret.day
   /\ data_file = JsonFile(ret.before))
  => data = ret.before
\* C21: the test for a banned keyword is a substring match without regard
\* to letter case: a match is reported exactly when some configured keyword,
\* lower-cased, occurs in the lower-cased text, whatever letter case the
\* keyword has in the configuration.
C21_KeywordMatchIgnoresCase ==
  window_ret.op = "check"
  => (window_ret.match
        <=> \E k \in 1..Len(banned_keywords) :
              Contains(Combined(window_ret.window), Lower(banned_keywords[k])))

\* Whether some listed window, or the foreground window, holds a keyword as
\* check_distraction tells it.
SomeWindowMatches ==
  \/ \E i \in 1..Len(all_windows) :
       CheckDistractionOf(all_windows[i].process_name, all_windows[i].title,
                          banned_keywords)
  \/ /\ foreground # NoWindow
     /\ CheckDistractionOf(foreground.process_name, foreground.title,
                           banned_keywords)

\* C22: get_window_context reports has_distraction exactly when some
\* window, in the foreground or not, has a process name or a title that
\* holds a banned keyword, for every foreground window (none included) and
\* every window list; check_any_distraction returns a keyword in exactly
\* those cases.
C22_DistractionInAnyWindow ==
  /\ window_ret.op = "context"
       => (window_ret.has_distraction <=> SomeWindowMatches)
  /\ window_ret.op = "any"
       => (window_ret.keyword # <<>> <=> SomeWindowMatches)

\* The tag of a keyword table for a lower-cased text: the tag of the first key,
\* in the order of the table, that occurs in the text.
TableOrderTag(table, text) ==
  LET hits == {k \in 1..Len(table) : Contains(text, table[k][1])}
  IN  IF hits = {} THEN <<>>
      ELSE <<<<table[CHOOSE k \in hits : \A h \in hits : k <= h][2]>>>>

SynthesizedTags(summary) ==
  LET text == Lower(summary)
      tags == TableOrderTag(AppKeywords, text) \o TableOrderTag(LangKeywords, text)
              \o TableOrderTag(ActivityKeywords, text)
  IN  IF tags = <<>> THEN <<<<"Aktivite">>>> ELSE tags

\* The reply lists no tag: it has no tag group, or its only group holds
\* nothing but empty entries and the placeholder.
ListsNoTag(t) ==
  \/ SearchGroup(t, 1) = 0
  \/ /\ CountGroups(t) = 1
     /\ LET p == SearchGroup(t, 1)
            entries == Split(SubSeq(t, p + 1, Closing(t, p) - 1), ",")
        IN  \A i \in 1..Len(entries) :
              Strip(entries[i]) = <<>> \/ Lower(Strip(entries[i])) = <<"genel">>

C24_EveryWarningNotified ==
  handled.op = "handled" => handled.notifications = 1

\* The rendering of a short-term memory: the sentinel when it is empty, else
\* its most recent entries, oldest first, joined by the arrow.
RECURSIVE Rendering(_)
Rendering(memory) ==
  IF memory = <<>> THEN <<"Yeni oturum">>
  ELSE IF Len(memory) > HistoryEntries THEN Rendering(Tail(memory))
  ELSE IF Len(memory) = 1 THEN <<memory[1]>>
  ELSE <<memory[1], Arrow>> \o Rendering(Tail(memory))

\* C25: the user prompt of a cycle embeds the active-window context, the
\* background applications and the rendering of the short-term memory (the
\* sentinel when the memory is empty, else its most recent entries, oldest
\* first, joined by the arrow); two cycles that differ only in the memory,
\* with different renderings, send different prompts.
C25_PromptEmbedsContextAndMemory ==
  /\ \A i \in 1..Len(user_prompts) :
       /\ Contains(user_prompts[i], <<context.active_win>>)
       /\ Contains(user_prompts[i], <<context.background_apps>>)
       /\ Contains(user_prompts[i], Rendering(context.memories[i]))
  /\ (Len(user_prompts) = 2
      /\ Rendering(context.memories[1]) # Rendering(context.memories[2]))
     => user_prompts[1] # user_prompts[2]

\* The records of a collection whose timestamp falls on a date.
RecordsOn(coll, target_date) ==
  SelectSeq(coll, LAMBDA r : r.meta.timestamp.date = target_date)

\* C26: get_logs_by_date(d) returns every stored record whose timestamp falls
\* on d, with or without the fields date and time, sorted by time, for a
\* collection of new records, of legacy records or of both. Stated for the
\* calls the collection answers.
C26_LogsOfEveryRecordOfTheDate ==
  (db_ret.op = "logs" /\ ~db_ret.failed)
  => LET records == RecordsOn(db_ret.before, db_ret.target_date) IN
       /\ Len(db_ret.ret) = Len(records)
       /\ \A i \in 1..Len(records) :
            \E j \in 1..Len(db_ret.ret) :
              /\ db_ret.ret[j].time = records[i].meta.timestamp.time
              /\ db_ret.ret[j].content = ExtractContent(records[i].document)
       /\ \A j \in 1..(Len(db_ret.ret) - 1) :
            db_ret.ret[j].time <= db_ret.ret[j + 1].time

\* A record as it is after a migration that kept it: the same id, document
\* and timestamp, and the fields date and time it had or, if it had none,
\* the ones derived from its timestamp.
KeptAs(old, new) ==
  /\ new.id = old.id
  /\ new.document = old.document
  /\ new.meta.timestamp = old.meta.timestamp
  /\ \/ new.meta = old.meta
     \/ /\ old.meta.date = NoField
        /\ new.meta.date = old.meta.timestamp.date
        /\ new.meta.time = old.meta.timestamp.time

\* C30: migrate_old_records loses and alters no record: when it has returned,
\* normally or after a call on the collection failed part-way, every record
\* the collection held is still there with its id, document and timestamp,
\* only the fields date and time added; a run that returns normally returns
\* the number of records it updated, and a run right after such a run
\* returns 0.
C30_MigrationKeepsEveryRecord ==
  db_ret.op = "migrate"
  => /\ Len(collection) = Len(db_ret.before)
     /\ \A i \in 1..Len(db_ret.before) :
          \E j \in 1..Len(collection) : KeptAs(db_ret.before[i], collection[j])
     /\ ~db_ret.failed
        => db_ret.ret = Len(SelectSeq(db_ret.before, LAMBDA r : ~HasDate(r)))
     /\ (db_ret.after_migration /\ ~db_ret.failed) => db_ret.ret = 0

\* C27: within an iteration the steps are taken in the order capture,
\* inference and parse, persist, append to short-term memory, update of the
\* distraction counter and dispatch of its warning: a step has been taken
\* only if the one before it has; in particular the counter is not updated
\* before the summary is appended.
C27_AppendBeforeFocusUpdate ==
  /\ cycle.inference # "none" => cycle.capture # "none"
  /\ cycle.saves >= 1 => cycle.inference # "none"
  /\ cycle.appends >= 1 => cycle.saves >= 1
  /\ cycle.checks >= 1 => cycle.appends >= 1
  /\ cycle.notified >= 1 => cycle.appends >= 1

\* C28: with a threshold T >= 1 and as long as notify-send could be launched
\* whenever it was run, the distraction counter of main.check_distraction is
\* at least 0 and below T after every cycle; a cycle sends a notification
\* exactly when its keyword test brings the counter to T, and resets the
\* counter to 0 in that cycle; otherwise the counter is one more after a
\* distracting cycle and one less, not below 0, after another one. So a run
\* of distracting cycles notifies on every T-th of them.
C28_CounterBelowThreshold ==
  ~cycle.notify_failed
  => /\ distraction_count >= 0
     /\ distraction_count < threshold
     /\ cycle.checks = 1
        => /\ cycle.notified = 1
              <=> (cycle.banned /\ cycle.count_before + 1 = threshold)
           /\ cycle.notified = 1 => distraction_count = 0
           /\ (cycle.notified = 0 /\ cycle.banned)
              => distraction_count = cycle.count_before + 1
           /\ (cycle.notified = 0 /\ ~cycle.banned)
              => distraction_count = Max(cycle.count_before - 1, 0)

\* The second distracting cycle in a row with a threshold of 2 has sent the
\* notification and reset the counter.
C28_Witness ==
  /\ threshold = 2
  /\ ~cycle.notify_failed
  /\ cycle.checks = 1
  /\ cycle.count_before = 1
  /\ cycle.notified = 1
  /\ distraction_count = 0

\* C29: within one calendar day, and for seconds that are not negative,
\* distraction_seconds never decreases from one call of add_distraction,
\* start_focus_session or get_stats to the next; hence once the allowance of
\* the day is used up, every later add_distraction of that day returns the
\* limit warning, also after start_focus_session. Stated on a call and the
\* state the call before it, made on the same day, left.
C29_SecondsNeverDecreaseInADay ==
  /\ ret.op \in {"start", "stats"}
     => data.distraction_seconds >= ret.before.distraction_seconds
  /\ (ret.op = "add" /\ ret.prev_day = ret.day)
     => /\ data.distraction_seconds >= ret.before.distraction_seconds
        /\ (ret.before.date = ret.day
            /\ ret.before.distraction_seconds >= daily_limit)
           => ret.warning = "limit"

====
